---- MODULE Spec2Model ----
(***************************************************************************)
(* Model of scripts/init_db.py: the MongoDB bootstrap script.              *)
(*                                                                         *)
(* One script instance is a sequential process: __main__ calls             *)
(* wait_for_db() (the availability probe loop) and then                    *)
(* check_and_initialise_db() (the provisioner), which ends in sys.exit(0). *)
(* The database is the shared state: the collections of DB_NAME, the       *)
(* documents of its 'users' collection and the users of the 'admin'        *)
(* database.  Strings that take part in the hashing are modelled as tuples *)
(* of tokens, so that a plaintext and a hash live in one domain.           *)
(***************************************************************************)
EXTENDS Integers, Sequences, FiniteSets, TLC

\* ------------------------------------------------------------------ bounds
MaxRestarts == 1      \* re-launches of the script in one behaviour
MaxClock == 1         \* largest reading of the wall clock
MaxAttempts == 2      \* the handshake counter saturates here (it guards nothing)

\* ------------------------------------------------- environment (os.getenv)
Instances == {"a", "b"}
DB_NAME == "projix_db"
APP_ADMIN_USER == "app_admin"
ADMIN_USER == "sysadmin@projix"
DB_ROOT_USER == "root"
\* candidate values of ADMIN_PASS and APP_ADMIN_PASS; the second one is a
\* plaintext that itself looks like a bcrypt string
Passwords == {<<"pw1">>, <<"$2b$", "salt1", "pw1">>}
\* the values bcrypt.gensalt() may return
Salts == {"salt1", "salt2"}
None == "None"
\* exitCode of a process that has not terminated
Running == -1

VARIABLES
    active,          \* the script instances that were launched
    env,             \* [ADMIN_PASS, APP_ADMIN_PASS]
    reachable,       \* the server currently answers handshakes
    collections,     \* names of the collections of database DB_NAME
    users,           \* documents of DB_NAME.users
    adminUsers,      \* users of the 'admin' database
    nextId,          \* the next fresh ObjectId
    now,             \* last reading of datetime.now
    restarts,        \* re-launches so far
    pc,              \* per instance: position in the script
    wclient,         \* per instance: the MongoClient of wait_for_db
    client,          \* per instance: the MongoClient of check_and_initialise_db
    db_collections,  \* per instance: local of check_and_initialise_db
    existing_admin,  \* per instance: local; <<>> is Python's None, else <<document>>
    existing_app_admin, \* per instance: local of check_and_initialise_db
    exitCode,        \* per instance: Running, else the exit status
    exc,             \* per instance: the uncaught exception, or None
    attempts,        \* per instance: handshakes attempted in this run (saturating)
    handshakeOk,     \* per instance: server_info() has succeeded in this run
    log,             \* per instance: database operations issued in this run
    orig,            \* the database as it was before the first launch
    runStart,        \* per instance: the database when the current run started
    lastOk           \* per instance: <<the database after the last successful earlier run>>

vars == <<active, env, reachable, collections, users, adminUsers, nextId, now,
          restarts, pc, wclient, client, db_collections, existing_admin,
          existing_app_admin, exitCode, exc, attempts, handshakeOk, log,
          orig, runStart, lastOk>>

dbVars == <<collections, users, adminUsers, nextId, now>>
envVars == <<active, env, reachable>>
ghostVars == <<orig, runStart, lastOk>>
locals == <<db_collections, existing_admin, existing_app_admin>>

\* ---------------------------------------------------------- pure functions
\* bcrypt.hashpw(password, salt): the "$2b$" tag, the salt, then the digest of
\* the password under that salt (symbolically: the password's tokens)
hash_password_plain(password, salt) == password

hash_password(password, salt) == <<"$2b$", salt>> \o password

verify_password(plain_password, hashed_password) ==
    /\ Len(hashed_password) >= 2
    /\ hashed_password[1] = "$2b$"
    /\ SubSeq(hashed_password, 3, Len(hashed_password)) = plain_password

\* User(...).model_dump(by_alias=True), then admin_data["_id"] = ObjectId()
User(id, email, hashed, roles, created, updated) ==
    [_id |-> id, email |-> email, hashed_password |-> hashed,
     is_active |-> TRUE, is_verified |-> TRUE, roles |-> roles,
     created_at |-> created, updated_at |-> updated, tenant_id |-> None]

\* the documents a query {"email": e} matches
Matching(coll, e) == {u \in coll : u.email = e}

\* the 'users' array of the reply to usersInfo
UsersInfo(au, name) == {a \in au : a.user = name}

HasRole(u, r) == \E k \in DOMAIN u.roles : u.roles[k] = r

DB == [collections |-> collections, users |-> users, adminUsers |-> adminUsers]

\* ------------------------------------------------------------ initial state
\* documents that may already be in 'users' before the first launch
InitialUsers ==
    { User(1, ADMIN_USER, hash_password(<<"old">>, "salt0"), <<"sysadmin">>, 0, 0),
      User(2, ADMIN_USER, hash_password(<<"old">>, "salt0"), <<"tenant_user">>, 0, 0),
      User(3, "someone@projix", hash_password(<<"old">>, "salt0"), <<"tenant_user">>, 0, 0) }

RootAccount == [user |-> DB_ROOT_USER, pwd |-> <<"rootpw">>,
                roles |-> <<[role |-> "root", db |-> "admin"]>>]
OldAppAdmin == [user |-> APP_ADMIN_USER, pwd |-> <<"old">>,
                roles |-> <<[role |-> "read", db |-> DB_NAME]>>]

InitCommon ==
    /\ env \in [ADMIN_PASS : Passwords, APP_ADMIN_PASS : Passwords]
    /\ reachable \in BOOLEAN
    /\ collections \in SUBSET {"roles", "users"}
    /\ users \in SUBSET InitialUsers
    /\ users # {} => "users" \in collections
    /\ adminUsers \in {{RootAccount}, {RootAccount, OldAppAdmin}}
    /\ nextId = 10
    /\ now = 0
    /\ restarts = 0
    /\ pc = [i \in Instances |-> IF i \in active THEN "main" ELSE "idle"]
    /\ wclient = [i \in Instances |-> "none"]
    /\ client = [i \in Instances |-> "none"]
    /\ db_collections = [i \in Instances |-> {}]
    /\ existing_admin = [i \in Instances |-> <<>>]
    /\ existing_app_admin = [i \in Instances |-> {}]
    /\ exitCode = [i \in Instances |-> Running]
    /\ exc = [i \in Instances |-> None]
    /\ attempts = [i \in Instances |-> 0]
    /\ handshakeOk = [i \in Instances |-> FALSE]
    /\ log = [i \in Instances |-> <<>>]
    /\ orig = [collections |-> collections, users |-> users,
               adminUsers |-> adminUsers, nextId |-> nextId]
    /\ runStart = [i \in Instances |-> DB]
    /\ lastOk = [i \in Instances |-> <<>>]

\* one instance of the script, started once per environment startup
Init ==
    /\ active = {"a"}
    /\ InitCommon

\* a database nothing has been provisioned in
Fresh ==
    /\ collections = {}
    /\ users = {}
    /\ adminUsers = {RootAccount}

\* one instance at the first startup, against a fresh database
InitFresh ==
    /\ active = {"a"}
    /\ InitCommon
    /\ Fresh

\* two instances started together at the first startup, against a fresh
\* database on a server that is up
InitConc ==
    /\ active = Instances
    /\ InitCommon
    /\ Fresh
    /\ env = [ADMIN_PASS |-> <<"pw1">>, APP_ADMIN_PASS |-> <<"pw1">>]
    /\ reachable

\* ------------------------------------------------------------- environment
DbUp ==
    /\ ~reachable
    /\ reachable' = TRUE
    /\ UNCHANGED <<active, env, dbVars, restarts, pc, wclient, client,
                   db_collections, existing_admin, existing_app_admin, exitCode,
                   exc, attempts, handshakeOk, log, ghostVars>>

DbDown ==
    /\ reachable
    /\ reachable' = FALSE
    /\ UNCHANGED <<active, env, dbVars, restarts, pc, wclient, client,
                   db_collections, existing_admin, existing_app_admin, exitCode,
                   exc, attempts, handshakeOk, log, ghostVars>>

\* ------------------------------------------------------------------ helpers
Goto(i, p) == pc' = [pc EXCEPT ![i] = p]
Issue(i, op, ok, arg) == log' = [log EXCEPT ![i] = Append(@, [op |-> op, ok |-> ok, arg |-> arg])]
Sat(n) == IF n < MaxAttempts THEN n + 1 ELSE MaxAttempts

\* the operation the script is about to send at each position
CommandAt(p) ==
    CASE p = "list_collection_names" -> "list_collection_names"
      [] p = "create_collection" -> "create_collection"
      [] p = "find_one" -> "find_one"
      [] p = "insert_one" -> "insert_one"
      [] p = "usersInfo" -> "usersInfo"
      [] p = "createUser" -> "createUser"
      [] OTHER -> None
CommandPcs == {"list_collection_names", "create_collection", "find_one",
               "insert_one", "usersInfo", "createUser"}
WaitPcs == {"main", "server_info", "sleep"}

\* --------------------------------------------------- __main__ and wait_for_db
\* __main__ calls wait_for_db, which constructs its MongoClient; no statement
\* of the script closes this client (a client counts as closed once close()
\* has been called on it)
Main(i) ==
    /\ pc[i] = "main"
    /\ wclient' = [wclient EXCEPT ![i] = "open"]
    /\ Goto(i, "server_info")
    /\ UNCHANGED <<envVars, dbVars, restarts, client, locals, exitCode, exc,
                   attempts, handshakeOk, log, ghostVars>>

\* try: client.server_info() succeeds; break; wait_for_db returns
\* (the handshake succeeds exactly when the server is reachable)
HandshakeOk(i) ==
    /\ pc[i] = "server_info"
    /\ reachable
    /\ attempts' = [attempts EXCEPT ![i] = Sat(@)]
    /\ handshakeOk' = [handshakeOk EXCEPT ![i] = TRUE]
    /\ Goto(i, "connect")
    /\ UNCHANGED <<envVars, dbVars, restarts, wclient, client, locals, exitCode,
                   exc, log, ghostVars>>

\* the handshake's exception is not caught: the probe raises
HandshakeFailRaises(i) ==
    /\ pc[i] = "server_info"
    /\ ~reachable
    /\ attempts' = [attempts EXCEPT ![i] = Sat(@)]
    /\ exc' = [exc EXCEPT ![i] = "ServerSelectionTimeoutError"]
    /\ exitCode' = [exitCode EXCEPT ![i] = 1]
    /\ Goto(i, "exited")
    /\ UNCHANGED <<envVars, dbVars, restarts, wclient, client, locals,
                   handshakeOk, log, ghostVars>>

\* the handshake's exception ends the loop: the probe returns
HandshakeFailBreaks(i) ==
    /\ pc[i] = "server_info"
    /\ ~reachable
    /\ attempts' = [attempts EXCEPT ![i] = Sat(@)]
    /\ Goto(i, "connect")
    /\ UNCHANGED <<envVars, dbVars, restarts, wclient, client, locals, exitCode,
                   exc, handshakeOk, log, ghostVars>>

\* except ServerSelectionTimeoutError: print, go on to time.sleep(5)
HandshakeFail(i) ==
    /\ pc[i] = "server_info"
    /\ ~reachable
    /\ attempts' = [attempts EXCEPT ![i] = Sat(@)]
    /\ Goto(i, "sleep")
    /\ UNCHANGED <<envVars, dbVars, restarts, wclient, client, locals, exitCode,
                   exc, handshakeOk, log, ghostVars>>

\* time.sleep(5), then the next turn of while True
Sleep(i) ==
    /\ pc[i] = "sleep"
    /\ Goto(i, "server_info")
    /\ UNCHANGED <<envVars, dbVars, restarts, wclient, client, locals, exitCode,
                   exc, attempts, handshakeOk, log, ghostVars>>

\* ---------------------------------------------------- check_and_initialise_db
\* client = MongoClient(mongo_uri); db = client[DB_NAME]
Connect(i) ==
    /\ pc[i] = "connect"
    /\ client' = [client EXCEPT ![i] = "open"]
    /\ Goto(i, "list_collection_names")
    /\ UNCHANGED <<envVars, dbVars, restarts, wclient, locals, exitCode, exc,
                   attempts, handshakeOk, log, ghostVars>>

\* db_collections = db.list_collection_names(); if "roles" not in db_collections
ListCollections(i) ==
    /\ pc[i] = "list_collection_names"
    /\ reachable
    /\ db_collections' = [db_collections EXCEPT ![i] = collections]
    /\ Issue(i, "list_collection_names", TRUE, <<>>)
    /\ Goto(i, IF "roles" \notin collections THEN "create_collection" ELSE "find_one")
    /\ UNCHANGED <<envVars, dbVars, restarts, wclient, client, existing_admin,
                   existing_app_admin, exitCode, exc, attempts, handshakeOk, ghostVars>>

\* the branch prints, and does not create the collection
CreateRolesSkipped(i) ==
    /\ pc[i] = "create_collection"
    /\ Goto(i, "find_one")
    /\ UNCHANGED <<envVars, dbVars, restarts, wclient, client, locals, exitCode,
                   exc, attempts, handshakeOk, log, ghostVars>>

\* db.create_collection("roles"); the server refuses a name that exists
CreateRoles(i) ==
    /\ pc[i] = "create_collection"
    /\ reachable
    /\ "roles" \notin collections
    /\ collections' = collections \cup {"roles"}
    /\ Issue(i, "create_collection", TRUE, <<"roles">>)
    /\ Goto(i, "find_one")
    /\ UNCHANGED <<envVars, users, adminUsers, nextId, now, restarts, wclient,
                   client, locals, exitCode, exc, attempts, handshakeOk, ghostVars>>

\* the query names a field no document has: find_one returns None
FindOneWrongField(i) ==
    /\ pc[i] = "find_one"
    /\ reachable
    /\ existing_admin' = [existing_admin EXCEPT ![i] = <<>>]
    /\ Goto(i, "insert_one")
    /\ Issue(i, "find_one", TRUE, <<>>)
    /\ UNCHANGED <<envVars, dbVars, restarts, wclient, client, db_collections,
                   existing_app_admin, exitCode, exc, attempts, handshakeOk, ghostVars>>

\* existing_admin = users_collection.find_one({"email": ADMIN_USER}); if not existing_admin
FindOne(i) ==
    /\ pc[i] = "find_one"
    /\ reachable
    /\ \E found \in IF Matching(users, ADMIN_USER) = {} THEN {<<>>}
                    ELSE {<<d>> : d \in Matching(users, ADMIN_USER)} :
          /\ existing_admin' = [existing_admin EXCEPT ![i] = found]
          /\ Goto(i, IF found = <<>> THEN "insert_one" ELSE "admin_exists")
    /\ Issue(i, "find_one", TRUE, <<>>)
    /\ UNCHANGED <<envVars, dbVars, restarts, wclient, client, db_collections,
                   existing_app_admin, exitCode, exc, attempts, handshakeOk, ghostVars>>

\* User(email=ADMIN_USER, hashed_password=hashed_password, is_active=True,
\* is_verified=True, roles=["tenant_user"]): the document with the default role
admin_data_default_role(salt, created, updated) ==
    User(nextId, ADMIN_USER, hash_password(env.ADMIN_PASS, salt),
         <<"tenant_user">>, created, updated)

\* hashed_password = hash_password(ADMIN_PASS); admin_data = User(email=ADMIN_USER,
\* hashed_password=hashed_password, is_active=True, is_verified=True,
\* roles=["sysadmin"]).model_dump(by_alias=True); admin_data["_id"] = ObjectId()
admin_data(salt, created, updated) ==
    User(nextId, ADMIN_USER, hash_password(env.ADMIN_PASS, salt),
         <<"sysadmin">>, created, updated)

\* users_collection.insert_one(admin_data), with the document built just before
\* (inserting into a collection that does not exist creates it)
InsertAdmin(i) ==
    /\ pc[i] = "insert_one"
    /\ reachable
    /\ \E salt \in Salts, created \in now..MaxClock :
         \E updated \in created..MaxClock :
              /\ users' = users \cup {admin_data(salt, created, updated)}
              /\ collections' = collections \cup {"users"}
              /\ nextId' = nextId + 1
              /\ now' = updated
              /\ Issue(i, "insert_one", TRUE, <<admin_data(salt, created, updated)>>)
    /\ Goto(i, "usersInfo")
    /\ UNCHANGED <<envVars, adminUsers, restarts, wclient, client, locals,
                   exitCode, exc, attempts, handshakeOk, ghostVars>>

\* else: the document found is given the "sysadmin" role (update_one)
AdminExistsUpdates(i) ==
    /\ pc[i] = "admin_exists"
    /\ reachable
    /\ users' = (users \ {existing_admin[i][1]})
                   \cup {[existing_admin[i][1] EXCEPT !.roles = <<"sysadmin">>]}
    /\ Goto(i, "usersInfo")
    /\ UNCHANGED <<envVars, collections, adminUsers, nextId, now, restarts, wclient,
                   client, locals, exitCode, exc, attempts, handshakeOk, log, ghostVars>>

\* else: print "Admin user ... already exists in users collection."
AdminExists(i) ==
    /\ pc[i] = "admin_exists"
    /\ Goto(i, "usersInfo")
    /\ UNCHANGED <<envVars, dbVars, restarts, wclient, client, locals, exitCode,
                   exc, attempts, handshakeOk, log, ghostVars>>

\* existing_app_admin = admin_db.command("usersInfo", APP_ADMIN_USER);
\* if not existing_app_admin["users"]
UsersInfoCmd(i) ==
    /\ pc[i] = "usersInfo"
    /\ reachable
    /\ existing_app_admin' = [existing_app_admin EXCEPT ![i] = UsersInfo(adminUsers, APP_ADMIN_USER)]
    /\ Issue(i, "usersInfo", TRUE, <<>>)
    /\ Goto(i, IF UsersInfo(adminUsers, APP_ADMIN_USER) = {} THEN "createUser"
               ELSE "app_admin_exists")
    /\ UNCHANGED <<envVars, dbVars, restarts, wclient, client, db_collections,
                   existing_admin, exitCode, exc, attempts, handshakeOk, ghostVars>>

\* admin_db.command("createUser", APP_ADMIN_USER, pwd=APP_ADMIN_PASS, roles=[...]);
\* the server refuses a user name that exists
CreateUser(i) ==
    /\ pc[i] = "createUser"
    /\ reachable
    /\ UsersInfo(adminUsers, APP_ADMIN_USER) = {}
    /\ LET cmd == [user |-> APP_ADMIN_USER, pwd |-> env.APP_ADMIN_PASS,
                   roles |-> <<[role |-> "readWrite", db |-> DB_NAME]>>]
       IN /\ adminUsers' = adminUsers \cup {cmd}
          /\ Issue(i, "createUser", TRUE, <<cmd>>)
    /\ Goto(i, "close")
    /\ UNCHANGED <<envVars, collections, users, nextId, now, restarts, wclient,
                   client, locals, exitCode, exc, attempts, handshakeOk, ghostVars>>

\* else: print "APP_ADMIN_USER ... already exists in admin database."
AppAdminExists(i) ==
    /\ pc[i] = "app_admin_exists"
    /\ Goto(i, "close")
    /\ UNCHANGED <<envVars, dbVars, restarts, wclient, client, locals, exitCode,
                   exc, attempts, handshakeOk, log, ghostVars>>

\* print "Database initialization complete."; client.close(); sys.exit(0)
Close(i) ==
    /\ pc[i] = "close"
    /\ client' = [client EXCEPT ![i] = "closed"]
    /\ exitCode' = [exitCode EXCEPT ![i] = 0]
    /\ Goto(i, "exited")
    /\ UNCHANGED <<envVars, dbVars, restarts, wclient, locals, exc, attempts,
                   handshakeOk, log, ghostVars>>

\* the exception is caught and dropped, and the script exits as after success
RaiseSwallowed(i) ==
    /\ pc[i] \in CommandPcs
    /\ exc' = [exc EXCEPT ![i] = IF reachable THEN "OperationFailure"
                                  ELSE "ServerSelectionTimeoutError"]
    /\ exitCode' = [exitCode EXCEPT ![i] = 0]
    /\ Issue(i, CommandAt(pc[i]), FALSE, <<>>)
    /\ Goto(i, "exited")
    /\ UNCHANGED <<envVars, dbVars, restarts, wclient, client, locals, attempts,
                   handshakeOk, ghostVars>>

\* a database command raises (OperationFailure from the server, or
\* ServerSelectionTimeoutError when the server went away); nothing in
\* check_and_initialise_db catches it, so the interpreter prints the traceback
\* and the process ends with status 1; the command has no effect
Raise(i) ==
    /\ pc[i] \in CommandPcs
    /\ exc' = [exc EXCEPT ![i] = IF reachable THEN "OperationFailure"
                                  ELSE "ServerSelectionTimeoutError"]
    /\ exitCode' = [exitCode EXCEPT ![i] = 1]
    /\ Issue(i, CommandAt(pc[i]), FALSE, <<>>)
    /\ Goto(i, "exited")
    /\ UNCHANGED <<envVars, dbVars, restarts, wclient, client, locals, attempts,
                   handshakeOk, ghostVars>>

\* the script is launched again (next container or environment startup)
Restart(i) ==
    /\ pc[i] = "exited"
    /\ restarts < MaxRestarts
    /\ restarts' = restarts + 1
    /\ Goto(i, "main")
    /\ wclient' = [wclient EXCEPT ![i] = "none"]
    /\ client' = [client EXCEPT ![i] = "none"]
    /\ db_collections' = [db_collections EXCEPT ![i] = {}]
    /\ existing_admin' = [existing_admin EXCEPT ![i] = <<>>]
    /\ existing_app_admin' = [existing_app_admin EXCEPT ![i] = {}]
    /\ exitCode' = [exitCode EXCEPT ![i] = Running]
    /\ exc' = [exc EXCEPT ![i] = None]
    /\ attempts' = [attempts EXCEPT ![i] = 0]
    /\ handshakeOk' = [handshakeOk EXCEPT ![i] = FALSE]
    /\ log' = [log EXCEPT ![i] = <<>>]
    /\ runStart' = [runStart EXCEPT ![i] = DB]
    /\ lastOk' = [lastOk EXCEPT ![i] = IF exitCode[i] = 0 THEN <<DB>> ELSE @]
    /\ UNCHANGED <<envVars, dbVars, orig>>

\* ------------------------------------------------------------ specifications
\* the steps of one running process
Proc(i) ==
    \/ Main(i) \/ HandshakeOk(i) \/ HandshakeFail(i) \/ Sleep(i)
    \/ Connect(i) \/ ListCollections(i) \/ CreateRoles(i) \/ FindOne(i)
    \/ InsertAdmin(i) \/ AdminExists(i) \/ UsersInfoCmd(i) \/ CreateUser(i)
    \/ AppAdminExists(i) \/ Close(i) \/ Raise(i)

Next ==
    \/ DbUp
    \/ DbDown
    \/ \E i \in active : Main(i)
    \/ \E i \in active : HandshakeOk(i)
    \/ \E i \in active : HandshakeFail(i)
    \/ \E i \in active : Sleep(i)
    \/ \E i \in active : Connect(i)
    \/ \E i \in active : ListCollections(i)
    \/ \E i \in active : CreateRoles(i)
    \/ \E i \in active : FindOne(i)
    \/ \E i \in active : InsertAdmin(i)
    \/ \E i \in active : AdminExists(i)
    \/ \E i \in active : UsersInfoCmd(i)
    \/ \E i \in active : CreateUser(i)
    \/ \E i \in active : AppAdminExists(i)
    \/ \E i \in active : Close(i)
    \/ \E i \in active : Raise(i)
    \/ \E i \in active : Restart(i)

\* one instance, run and re-run in sequence
Spec == Init /\ [][Next]_vars

\* one instance on a fresh database, a running process always taking its
\* next step (the interpreter does not stall); the server and the re-launches
\* are under no obligation
FairSpec == InitFresh /\ [][Next]_vars /\ \A i \in Instances : WF_vars(Proc(i))

\* two instances against one database
SpecConc == InitConc /\ [][Next]_vars

\* ---------------------------------------------------------------- properties
\* positions of the operations of kind op that instance i issued in this run
Issued(i, op) == {k \in DOMAIN log[i] : log[i][k].op = op}
Done(i, op) == {k \in Issued(i, op) : log[i][k].ok}
WriteOps == {"create_collection", "insert_one", "createUser"}

\* the databases a run in which no command fails can leave behind when started
\* on database o (the salt and the two clock readings are free)
Outcomes(o) ==
    LET colls == o.collections \cup {"roles"}
                   \cup (IF Matching(o.users, ADMIN_USER) = {} THEN {"users"} ELSE {})
        accts == IF UsersInfo(o.adminUsers, APP_ADMIN_USER) = {}
                 THEN o.adminUsers \cup
                        {[user |-> APP_ADMIN_USER, pwd |-> env.APP_ADMIN_PASS,
                          roles |-> <<[role |-> "readWrite", db |-> DB_NAME]>>]}
                 ELSE o.adminUsers
        docs == IF Matching(o.users, ADMIN_USER) # {} THEN {o.users}
                ELSE { o.users \cup {User(o.nextId, ADMIN_USER,
                                          <<"$2b$", salt>> \o env.ADMIN_PASS,
                                          <<"sysadmin">>, tt[1], tt[2])} :
                         salt \in Salts,
                         tt \in {t \in (0..MaxClock) \X (0..MaxClock) : t[1] <= t[2]} }
    IN {[collections |-> colls, users |-> d, adminUsers |-> accts] : d \in docs}

\* C1: a run that completes after an earlier run completed leaves the database
\* exactly as that earlier run left it, and issues no create_collection, no
\* insert_one and no createUser.
C1_Idempotent ==
    \A i \in Instances :
        (exitCode[i] = 0 /\ lastOk[i] # <<>>) =>
            /\ DB = lastOk[i][1]
            /\ \A op \in WriteOps : Issued(i, op) = {}

\* a second successful run, where the first one had to create all three objects
C1_Witness ==
    \E i \in Instances :
        /\ exitCode[i] = 0
        /\ lastOk[i] # <<>>
        /\ "roles" \notin orig.collections
        /\ Matching(orig.users, ADMIN_USER) = {}
        /\ UsersInfo(orig.adminUsers, APP_ADMIN_USER) = {}
        /\ Matching(users, ADMIN_USER) # {}

\* C2 as stated: after a run that reached sys.exit(0), the query by
\* email = ADMIN_USER matches exactly one document and it has the "sysadmin"
\* role, whatever 'users' held before.
C2_Original ==
    \A i \in Instances :
        exitCode[i] = 0 =>
            /\ Cardinality(Matching(users, ADMIN_USER)) = 1
            /\ \A u \in Matching(users, ADMIN_USER) : HasRole(u, "sysadmin")

\* C2 amended: after a run that reached sys.exit(0), with no other instance
\* writing 'users' meanwhile, if 'users' held no document
\* with email ADMIN_USER when the run started, the query matches exactly one
\* document and it has the "sysadmin" role; otherwise it matches exactly the
\* documents it matched when the run started, unchanged.
C2_Amended ==
    \A i \in Instances :
        exitCode[i] = 0 =>
            IF Matching(runStart[i].users, ADMIN_USER) = {}
            THEN /\ Cardinality(Matching(users, ADMIN_USER)) = 1
                 /\ \A u \in Matching(users, ADMIN_USER) : HasRole(u, "sysadmin")
            ELSE Matching(users, ADMIN_USER) = Matching(runStart[i].users, ADMIN_USER)

\* a successful run that inserted the sysadmin beside a document of another user
C2_Witness ==
    \E i \in Instances :
        /\ exitCode[i] = 0
        /\ Done(i, "insert_one") # {}
        /\ runStart[i].users # {}
        /\ Matching(runStart[i].users, ADMIN_USER) = {}

\* C3 (steps): while the server does not answer, the step wait_for_db takes
\* after a handshake is into the sleep, with no exception and no exit; the step
\* after the sleep is the next handshake; and the probe is left only by a
\* successful handshake, into check_and_initialise_db.
C3Step ==
    \A i \in Instances :
        /\ (pc[i] = "server_info" /\ ~reachable /\ pc'[i] # pc[i]) =>
              /\ pc'[i] = "sleep"
              /\ exitCode'[i] = Running
              /\ exc'[i] = None
        /\ (pc[i] = "sleep" /\ pc'[i] # pc[i]) => pc'[i] = "server_info"
        /\ (pc[i] \in WaitPcs /\ pc'[i] \notin WaitPcs) =>
              /\ reachable
              /\ pc[i] = "server_info"
              /\ handshakeOk'[i]
              /\ pc'[i] = "connect"

\* C3 (no bound): however many handshakes have failed, the retry is possible
C3Retry ==
    \A i \in Instances :
        /\ (pc[i] = "server_info" /\ ~reachable) => ENABLED HandshakeFail(i)
        /\ pc[i] = "sleep" => ENABLED Sleep(i)

\* C3: while the database is unreachable wait_for_db neither returns nor
\* raises; it sleeps and tries again after every failed handshake, without a
\* bound on the attempts, and returns only after a handshake succeeded.
C3_WaitsWhileUnreachable == [][C3Step]_vars /\ []C3Retry

\* the probe is asleep after at least MaxAttempts failed handshakes
C3_Witness ==
    \E i \in Instances :
        /\ pc[i] = "sleep"
        /\ attempts[i] = MaxAttempts
        /\ ~reachable
        /\ ~handshakeOk[i]

\* C4 as stated: the hashed_password of an inserted sysadmin document is never
\* ADMIN_PASS, and the pwd sent with createUser is never APP_ADMIN_PASS.
C4_Original ==
    \A i \in Instances : \A k \in DOMAIN log[i] :
        /\ (log[i][k].op = "insert_one" /\ log[i][k].ok) =>
              log[i][k].arg[1].hashed_password # env.ADMIN_PASS
        /\ (log[i][k].op = "createUser" /\ log[i][k].ok) =>
              log[i][k].arg[1].pwd # env.APP_ADMIN_PASS

\* C4 amended: the hashed_password of an inserted sysadmin document is never
\* ADMIN_PASS; the pwd sent with createUser is APP_ADMIN_PASS itself (the
\* script does not hash it).
C4_Amended ==
    \A i \in Instances : \A k \in DOMAIN log[i] :
        /\ (log[i][k].op = "insert_one" /\ log[i][k].ok) =>
              log[i][k].arg[1].hashed_password # env.ADMIN_PASS
        /\ (log[i][k].op = "createUser" /\ log[i][k].ok) =>
              log[i][k].arg[1].pwd = env.APP_ADMIN_PASS

\* one run inserted the sysadmin and created the account, with an ADMIN_PASS
\* that itself reads like a bcrypt string; the stored hash verifies against it
C4_Witness ==
    \E i \in Instances :
        /\ Done(i, "createUser") # {}
        /\ env.ADMIN_PASS[1] = "$2b$"
        /\ \E k \in Done(i, "insert_one") :
              /\ log[i][k].arg[1] \in users
              /\ verify_password(env.ADMIN_PASS, log[i][k].arg[1].hashed_password)

\* C5 (steps): a step never removes or changes a document of 'users'; a step
\* that changes 'users' adds one document, and it is the insert_one of an
\* instance whose find_one in this run found no document with email ADMIN_USER.
C5Step ==
    /\ users \subseteq users'
    /\ users' # users =>
          \E i \in active :
              /\ pc[i] = "insert_one"
              /\ Done(i, "find_one") # {}
              /\ existing_admin[i] = <<>>
              /\ Cardinality(users' \ users) = 1
              /\ Done(i, "insert_one") = {}

\* C5 (runs): the documents present when a run started are still present,
\* and a run inserts at most once.
C5Run ==
    \A i \in Instances :
        /\ runStart[i].users \subseteq users
        /\ orig.users \subseteq users
        /\ Cardinality(Done(i, "insert_one")) <= 1

\* C5: the script never updates or deletes a user document: every document
\* present before a run is present, field for field, after it; the only write
\* to 'users' is at most one insert per run, made when find_one found nothing.
C5_UsersOnlyGrow == [][C5Step]_vars /\ []C5Run

\* a run took the "already exists" branch on a document that lacks the
\* "sysadmin" role, and ended with that document as it was
C5_Witness ==
    \E i \in Instances :
        /\ pc[i] = "exited"
        /\ existing_admin[i] # <<>>
        /\ \E d \in orig.users :
              /\ existing_admin[i] = <<d>>
              /\ ~HasRole(d, "sysadmin")
              /\ d \in users

\* C6: a process that ended with status 0 performed the roles check, the
\* sysadmin check and the APP_ADMIN_USER check in that run, and the 'roles'
\* collection, a document with email ADMIN_USER and the APP_ADMIN_USER account
\* all exist.
C6_ExitZeroMeansProvisioned ==
    \A i \in Instances :
        exitCode[i] = 0 =>
            /\ Done(i, "list_collection_names") # {}
            /\ Done(i, "find_one") # {}
            /\ Done(i, "usersInfo") # {}
            /\ "roles" \in collections
            /\ Matching(users, ADMIN_USER) # {}
            /\ UsersInfo(adminUsers, APP_ADMIN_USER) # {}

\* a run that found all three objects missing, created them and exited 0
C6_Witness ==
    \E i \in Instances :
        /\ exitCode[i] = 0
        /\ \A op \in WriteOps : Done(i, op) # {}

\* C7: an instance never has more than one MongoClient open, and when its
\* process has terminated every MongoClient it opened has been closed.
C7_SingleClientClosed ==
    \A i \in Instances :
        /\ ~(wclient[i] = "open" /\ client[i] = "open")
        /\ pc[i] = "exited" => (wclient[i] # "open" /\ client[i] # "open")

\* C8 (order): an instance that has issued a provisioning operation in this
\* run has seen server_info() succeed in this run.
C8Order ==
    \A i \in Instances :
        (log[i] # <<>> \/ pc[i] \in CommandPcs \/ client[i] # "none") => handshakeOk[i]

\* C8: no provisioning operation is issued before wait_for_db has observed a
\* successful handshake; and if the database is reachable from some point on,
\* wait_for_db returns and check_and_initialise_db starts.
C8_WaitThenProvision ==
    /\ []C8Order
    /\ \A i \in Instances :
          []((i \in active /\ []reachable) => <>(handshakeOk[i] /\ pc[i] \notin WaitPcs))

\* provisioning has started after a wait through failed handshakes
C8_Witness ==
    \E i \in Instances :
        /\ attempts[i] = MaxAttempts
        /\ handshakeOk[i]
        /\ log[i] # <<>>

\* C9: with two instances interleaved on a fresh database, 'users' never
\* holds more than one document whose email is ADMIN_USER.
C9_NoDuplicateAdmin == Cardinality(Matching(users, ADMIN_USER)) <= 1

\* C10 (status): a process in which a command raised has not ended with
\* status 0: it ended with status 1.
C10Status ==
    \A i \in Instances :
        (exc[i] # None \/ \E k \in DOMAIN log[i] : ~log[i][k].ok) =>
            (pc[i] = "exited" /\ exitCode[i] = 1)

\* C10 (no rollback): what a run created is in the database, also after a
\* later command of that run raised.
C10Kept ==
    \A i \in Instances : \A k \in DOMAIN log[i] :
        log[i][k].ok =>
            /\ log[i][k].op = "create_collection" => "roles" \in collections
            /\ log[i][k].op = "insert_one" => log[i][k].arg[1] \in users
            /\ log[i][k].op = "createUser" => log[i][k].arg[1] \in adminUsers

\* C10 (recovery): a run that ends with status 0, whatever runs failed before
\* it, leaves a database that one never-failing run from the original
\* database can leave.
C10Recovered ==
    \A i \in Instances :
        exitCode[i] = 0 => DB \in Outcomes(orig)

\* C10: a command failure ends the process without success status, keeps the
\* objects created earlier in that run, and a later run without failure ends
\* in the state a single never-failing run from the original state reaches.
C10_FailureRecovery == C10Status /\ C10Kept /\ C10Recovered

\* a run succeeded after a run that had created something and then failed,
\* with no successful run before it
C10_Witness ==
    \E i \in Instances :
        /\ exitCode[i] = 0
        /\ lastOk[i] = <<>>
        /\ runStart[i] # [collections |-> orig.collections, users |-> orig.users,
                          adminUsers |-> orig.adminUsers]
        /\ Done(i, "createUser") # {}

====
